---- MODULE Spec2Model ----
(***************************************************************************)
(* rund: a process supervisor.  Three state machines are modelled.         *)
(*                                                                         *)
(*   Spec   the detached supervisor of one invocation: main() of main.c    *)
(*          from the return of parse_option() on, with the forked target,  *)
(*          the respawn policy, the shutdown flag and graceful_shutdown(). *)
(*   SpecD  the daemonization handshake of daemonize.c for several         *)
(*          invocations that share one pid-file path, over a file system   *)
(*          with inodes and POSIX record locks (owned by a process,        *)
(*          dropped when that process closes any descriptor of the file).  *)
(*   SpecC  the child of the loop's fork(), from the return of fork() to   *)
(*          the exec of the target or the child's exit, with its           *)
(*          descriptor table, working directory and ids.                   *)
(*                                                                         *)
(* A uint32_t word of respawn_code_bits is the set of its set bit          *)
(* positions (a subset of 0..31), so that -1U is 0..31 and -2U is 1..31.   *)
(* A wait status is the integer waitpid() stores: code * 256 for a normal  *)
(* exit, the signal number for a death by signal.                          *)
(***************************************************************************)
EXTENDS Integers, Sequences, FiniteSets, TLC

\* ------------------------------------------------------------- bounds
\* the target terminates by itself at most this many times
MaxDeaths == 3
\* at most this many --respawn-code options on the command line
MaxCodeArgs == 2

\* ------------------------------------------------- program constants
CHILD_EXEC_ERR_CODE == 254
RESPAWN_CODE_BITS_ARRAY_SIZE == 4
RESPAWN_CODE_BITS_ELEM_WIDTH == 32
EXIT_SUCCESS == 0
EXIT_FAILURE == 1
SIGINT == 2
SIGKILL == 9
SIGTERM == 15
STDIN_FILENO == 0
STDOUT_FILENO == 1
STDERR_FILENO == 2
\* int timeout_cnt = 5 * 10
GRACE_TICKS_short == 5 * 10 - 1
GRACE_TICKS == 5 * 10
\* the default of respawn_delay in OPTION_INITIALIZER
DEFAULT_RESPAWN_DELAY == 3

\* ------------------------------------------------------- wait status
W_EXITCODE(code) == code * 256
W_SIGNALED(sig) == sig
WIFEXITED(s) == s % 128 = 0
WEXITSTATUS(s) == (s \div 256) % 256
WIFSIGNALED(s) == (s % 128) \notin {0, 127}

\* exit codes the target is run with: every word boundary of the bitset,
\* the first codes past it, the reserved code and its neighbours
ExitCodes == {0, 1, 7, 31, 32, 42, 63, 64, 95, 96, 126, 127, 128, 129, 159, 160, 253, 254, 255}
TermSignals == {SIGINT, SIGKILL, SIGTERM}
Statuses == {W_EXITCODE(c) : c \in ExitCodes} \cup {W_SIGNALED(s) : s \in TermSignals}

\* ------------------------------------------------------ option model
Word == 0 .. (RESPAWN_CODE_BITS_ELEM_WIDTH - 1)

OPTION_INITIALIZER ==
    [ pid_file |-> FALSE,
      respawn |-> FALSE,
      respawn_code_bits |-> << Word \ {0}, Word, Word, Word >>,
      respawn_delay |-> DEFAULT_RESPAWN_DELAY,
      max_respawn_cnt |-> 0 ]

RUNTIMEFDS_INITIALIZER == [ stdout_fd |-> -1, stderr_fd |-> -1, pid_fd |-> -1 ]

RECURSIVE set_code_bit(_, _, _)
set_code_bit(bits, code, i) ==
    IF i > RESPAWN_CODE_BITS_ARRAY_SIZE THEN bits
    ELSE IF code < 32 THEN [bits EXCEPT ![i] = @ \cup {code}]
    ELSE set_code_bit(bits, code - 32, i + 1)

\* parse_respawn_code for a code string that is a number in [-1, 127]
parse_respawn_code(bits, code) ==
    IF code = -1
    THEN [i \in 1 .. RESPAWN_CODE_BITS_ARRAY_SIZE |-> Word]
    ELSE set_code_bit(bits, code, 1)

\* the options parsed with the default mask never cleared
RECURSIVE parse_respawn_codes_keep(_, _, _)
parse_respawn_codes_keep(bits, codes, has_respawn_code) ==
    IF codes = << >> THEN bits
    ELSE parse_respawn_codes_keep(parse_respawn_code(bits, Head(codes)), Tail(codes), TRUE)

\* case OPT_RESPAWN_CODE of parse_option, once per --respawn-code option:
\* the first one clears the default mask
RECURSIVE parse_respawn_codes(_, _, _)
parse_respawn_codes(bits, codes, has_respawn_code) ==
    IF codes = << >> THEN bits
    ELSE LET cleared == IF has_respawn_code THEN bits
                        ELSE [i \in 1 .. RESPAWN_CODE_BITS_ARRAY_SIZE |-> {}]
         IN  parse_respawn_codes(parse_respawn_code(cleared, Head(codes)), Tail(codes), TRUE)

\* the command line: which options are given, with their values
\* (delay and max are << >> when the option is absent, << n >> when given)
parse_option(args) ==
    [ OPTION_INITIALIZER EXCEPT
        !.pid_file = args.pidfile,
        !.respawn = args.respawn,
        !.respawn_code_bits = parse_respawn_codes(@, args.codes, FALSE),
        !.respawn_delay = IF args.delay = << >> THEN @ ELSE args.delay[1],
        !.max_respawn_cnt = IF args.max = << >> THEN @ ELSE args.max[1] ]

RespawnCodeArgs == {-1, 0, 42, 127}
CodeSeqs == UNION { [1 .. n -> RespawnCodeArgs] : n \in 0 .. MaxCodeArgs }
CommandLines ==
    [ pidfile : BOOLEAN, respawn : BOOLEAN, codes : CodeSeqs,
      delay : {<< >>, << 0 >>}, max : {<< >>, << 0 >>, << 1 >>, << 2 >>} ]

\* the loop with the word test off by one
RECURSIVE check_respawn_loop_off(_, _, _)
check_respawn_loop_off(opt, code, i) ==
    IF i > RESPAWN_CODE_BITS_ARRAY_SIZE THEN FALSE
    ELSE IF code <= 32 THEN code \in opt.respawn_code_bits[i]
    ELSE check_respawn_loop_off(opt, code - 32, i + 1)

RECURSIVE check_respawn_loop(_, _, _)
check_respawn_loop(opt, code, i) ==
    IF i > RESPAWN_CODE_BITS_ARRAY_SIZE THEN FALSE
    ELSE IF code < 32 THEN code \in opt.respawn_code_bits[i]
    ELSE check_respawn_loop(opt, code - 32, i + 1)

\* the lookup without the test of opt->respawn
check_respawn_required_noflag(opt, code) == check_respawn_loop(opt, code, 1)

check_respawn_required(opt, code) ==
    IF ~opt.respawn THEN FALSE ELSE check_respawn_loop(opt, code, 1)

\* ------------------------------------------- daemonization state
\* One slot per invocation of the program with the same --pidfile path.  A
\* slot holds two processes: the one the shell started (the parent of the
\* handshake) and the one daemonize() forks (the detached child).
VARIABLES
    starts,      \* invocations started so far
    run,         \* slot -> the number of the invocation it holds (0: none)
    pid_file,    \* slot -> daemonize's pid_file is not NULL (--pidfile was given)
    pid_fd,      \* slot -> daemonize's pid_fd in the detached process
    dpc,         \* process -> where it stands in daemonize() and main()
    dfd,         \* process -> the inode its pid-file descriptor is open on (0: closed)
    dexit,       \* process -> its exit status (-1: none)
    dcode,       \* process -> the argument of its cleanup_and_exit() call
    diag,        \* process -> the failure it reported last ("none": nothing)
    pipe,        \* slot -> bytes in the handshake pipe
    path_ino,    \* the inode the pid-file path names (0: no such file)
    inodes       \* inode -> [content: the pid written in it (0: empty),
                 \*           lock: the pid of the process that holds the lock (0: none)]

dvars == << starts, run, pid_file, pid_fd, dpc, dfd, dexit, dcode, diag, pipe,
           path_ino, inodes >>

\* -------------------------------------------------- supervisor state
VARIABLES
    option,              \* static option_t option
    runtimefds,          \* static runtimefds_t runtimefds
    shutdown_requested,  \* the flag the signal handler sets
    handlers_installed,  \* sigaction_init() has run
    handler_logged,      \* the signal handler has called syslog()
    pc,                  \* where main() stands
    pid,                 \* main's pid: the target last forked (0: none)
    status,              \* main's status, from the reap to the next fork (-1: none)
    respawn_cnt,         \* main's respawn_cnt
    timeout_cnt,         \* graceful_shutdown's timeout_cnt
    exit_code,           \* the supervisor's exit status (-1: none)
    child_state,         \* none | setup | running | zombie | reaped
    child_status,        \* the wait status of a zombie
    forks,               \* successful fork() calls of the loop
    reaps,               \* waitpid() calls that returned the target's pid
    signals_sent,        \* the signals main sent to the target, in order
    ticks,               \* waitpid(WNOHANG) calls of graceful_shutdown()
    pid_file_exists,     \* the pid file is at its path
    lock_held            \* the supervisor holds the pid-file lock

svars == << option, runtimefds, shutdown_requested, handlers_installed,
            handler_logged, pc, pid, status, respawn_cnt, timeout_cnt, exit_code,
            child_state, child_status, forks, reaps, signals_sent, ticks,
            pid_file_exists, lock_held >>

\* ------------------------------------------- state of a forked child
\* the child of the loop's fork(), from the return of fork() to the exec of
\* the target or the child's exit; it works on its own copy of the
\* supervisor's memory and descriptor table
VARIABLES
    child_option,      \* the child's copy of option (the fields it reads)
    child_runtimefds,  \* the child's copy of runtimefds
    child_pc,          \* where the child stands
    child_fds,         \* descriptor -> [file: what it is open on, cloexec: FD_CLOEXEC]
    child_cwd,         \* the working directory
    child_env,         \* the environment variables set since the fork
    child_ids,         \* [uid, gid] of the process
    child_calls,       \* the identity calls that succeeded, in order
    child_failed,      \* the calls that failed
    child_exit         \* the child's exit code (-1: none)

cvars == << child_option, child_runtimefds, child_pc, child_fds, child_cwd,
           child_env, child_ids, child_calls, child_failed, child_exit >>

vars == << svars, dvars, cvars >>

\* the descriptor daemonize() returns for the locked pid file
PID_FD == 3

InitS(cmds) ==
    /\ \E args \in cmds : option = parse_option(args)
    /\ runtimefds = RUNTIMEFDS_INITIALIZER
    /\ shutdown_requested = 0
    /\ handlers_installed = FALSE
    /\ handler_logged = FALSE
    /\ pc = "daemonize"
    /\ pid = 0
    /\ status = -1
    /\ respawn_cnt = 0
    /\ timeout_cnt = 0
    /\ exit_code = -1
    /\ child_state = "none"
    /\ child_status = 0
    /\ forks = 0
    /\ reaps = 0
    /\ signals_sent = << >>
    /\ ticks = 0
    /\ pid_file_exists = FALSE
    /\ lock_held = FALSE

\* cleanup_and_exit(code): close the descriptors, unlink the pid file when
\* runtimefds.pid_fd is open, exit
cleanup_and_exit(code) ==
    /\ runtimefds' = RUNTIMEFDS_INITIALIZER
    /\ lock_held' = FALSE
    /\ pid_file_exists' = IF runtimefds.pid_fd >= 0 THEN FALSE ELSE pid_file_exists
    /\ exit_code' = code
    /\ pc' = "exited"

\* rc = daemonize(option.pid_file) returns 0 or the locked descriptor to the
\* detached process, which main() stores in runtimefds.pid_fd
MainDaemonizeOk ==
    /\ UNCHANGED << dvars, cvars >>
    /\ pc = "daemonize"
    /\ pc' = "fork"
    /\ IF option.pid_file
       THEN /\ runtimefds' = [runtimefds EXCEPT !.pid_fd = PID_FD]
            /\ pid_file_exists' = TRUE
            /\ lock_held' = TRUE
       ELSE UNCHANGED << runtimefds, pid_file_exists, lock_held >>
    /\ UNCHANGED << ticks, option, shutdown_requested, handlers_installed, handler_logged,
                    pid, status, respawn_cnt, timeout_cnt, exit_code, child_state,
                    child_status, forks, reaps, signals_sent >>

\* a fork() failure that waits and tries the fork again
ForkFail_retry ==
    /\ UNCHANGED << dvars, cvars >>
    /\ pc = "fork"
    /\ pc' = "delay"
    /\ UNCHANGED << ticks, option, runtimefds, shutdown_requested, handlers_installed,
                    handler_logged, pid, status, respawn_cnt, timeout_cnt, exit_code,
                    child_state, child_status, forks, reaps, signals_sent,
                    pid_file_exists, lock_held >>

\* the loop's fork() fails
ForkFail ==
    /\ UNCHANGED << dvars, cvars >>
    /\ pc = "fork"
    /\ cleanup_and_exit(EXIT_FAILURE)
    /\ UNCHANGED << ticks, option, shutdown_requested, handlers_installed, handler_logged,
                    pid, status, respawn_cnt, timeout_cnt, child_state,
                    child_status, forks, reaps, signals_sent >>

\* the loop's fork() returns the pid of a new child to the parent
ForkOk ==
    /\ UNCHANGED << dvars, cvars >>
    /\ pc = "fork"
    /\ forks' = forks + 1
    /\ pid' = forks + 1
    /\ child_state' = "setup"
    /\ child_status' = 0
    /\ status' = -1
    /\ pc' = "sigaction_init"
    /\ UNCHANGED << ticks, option, runtimefds, shutdown_requested, handlers_installed,
                    handler_logged, respawn_cnt, timeout_cnt, exit_code, reaps,
                    signals_sent, pid_file_exists, lock_held >>

sigaction_init ==
    /\ UNCHANGED << dvars, cvars >>
    /\ pc = "sigaction_init"
    /\ handlers_installed' = TRUE
    /\ pc' = "watch"
    /\ UNCHANGED << ticks, option, runtimefds, shutdown_requested, handler_logged, pid,
                    status, respawn_cnt, timeout_cnt, exit_code, child_state,
                    child_status, forks, reaps, signals_sent, pid_file_exists,
                    lock_held >>

Alive == pc \notin {"exited", "signaled"}

\* SIGINT or SIGTERM is delivered while sigaction_handler is installed
sigaction_handler ==
    /\ UNCHANGED << dvars, cvars >>
    /\ Alive
    /\ handlers_installed
    /\ handler_logged' = TRUE
    /\ shutdown_requested' = 1
    /\ UNCHANGED << ticks, option, runtimefds, handlers_installed, pc, pid, status,
                    respawn_cnt, timeout_cnt, exit_code, child_state, child_status,
                    forks, reaps, signals_sent, pid_file_exists, lock_held >>

\* SIGINT or SIGTERM is delivered with the default disposition: the process
\* is terminated where it stands, its descriptors (and its lock) are dropped
SignalDefault ==
    /\ UNCHANGED << dvars, cvars >>
    /\ pc \in {"fork", "sigaction_init"}
    /\ ~handlers_installed
    /\ pc' = "signaled"
    /\ lock_held' = FALSE
    /\ UNCHANGED << ticks, option, runtimefds, shutdown_requested, handlers_installed,
                    handler_logged, pid, status, respawn_cnt, timeout_cnt, exit_code,
                    child_state, child_status, forks, reaps, signals_sent,
                    pid_file_exists >>

\* WIFEXITED(status) && WEXITSTATUS(status) == CHILD_EXEC_ERR_CODE
exec_failed_never(s) == FALSE
exec_failed(s) == WIFEXITED(s) /\ WEXITSTATUS(s) = CHILD_EXEC_ERR_CODE

\* the bitset consulted for a death by signal too, with the signal number
respawn_required_bits(opt, s) ==
    check_respawn_required(opt, IF WIFEXITED(s) THEN WEXITSTATUS(s) ELSE s % 128)

\* respawn_required once the status is classified
respawn_required(opt, s) ==
    IF WIFEXITED(s) THEN check_respawn_required(opt, WEXITSTATUS(s))
    ELSE opt.respawn

\* option.max_respawn_cnt && respawn_cnt > option.max_respawn_cnt, on the
\* counter already incremented
cap_reached_nozero(opt, cnt) == cnt > opt.max_respawn_cnt
cap_reached_early(opt, cnt) == opt.max_respawn_cnt # 0 /\ cnt >= opt.max_respawn_cnt
cap_reached(opt, cnt) == opt.max_respawn_cnt # 0 /\ cnt > opt.max_respawn_cnt

\* the decision of main() on a reaped wait status s: the supervisor's next
\* place ("exit_failure", "exit_success", "delay" or "fork") and counter
Decision(opt, cnt, s) ==
    IF exec_failed(s)
    THEN [next |-> "exit_failure", cnt |-> cnt]
    ELSE IF cap_reached(opt, cnt + 1)
    THEN [next |-> "exit_success", cnt |-> cnt + 1]
    ELSE IF ~respawn_required(opt, s)
    THEN [next |-> "exit_success", cnt |-> cnt + 1]
    ELSE IF opt.respawn_delay > 0
    THEN [next |-> "delay", cnt |-> cnt + 1]
    ELSE [next |-> "fork", cnt |-> cnt + 1]

\* an iteration that leaves the watch loop although waitpid() returned 0
WatchPoll_break ==
    /\ UNCHANGED << dvars, cvars >>
    /\ pc = "watch"
    /\ shutdown_requested = 0
    /\ child_state # "zombie"
    /\ pc' = "fork"
    /\ UNCHANGED << ticks, option, runtimefds, shutdown_requested, handlers_installed,
                    handler_logged, pid, status, respawn_cnt, timeout_cnt, exit_code,
                    child_state, child_status, forks, reaps, signals_sent,
                    pid_file_exists, lock_held >>

\* one iteration of the watch loop with the flag clear and the target not
\* yet dead: waitpid(WNOHANG) returns 0, usleep
WatchPoll ==
    /\ UNCHANGED << dvars, cvars >>
    /\ pc = "watch"
    /\ shutdown_requested = 0
    /\ child_state # "zombie"
    /\ UNCHANGED << svars, cvars >>

\* the reap and the decision taken without looking at the flag
WatchReap_anyflag ==
    /\ UNCHANGED << dvars, cvars >>
    /\ pc = "watch"
    /\ child_state = "zombie"
    /\ child_state' = "reaped"
    /\ reaps' = reaps + 1
    /\ status' = child_status
    /\ LET d == Decision(option, respawn_cnt, child_status)
       IN  /\ respawn_cnt' = d.cnt
           /\ IF d.next = "exit_failure" THEN cleanup_and_exit(EXIT_FAILURE)
              ELSE IF d.next = "exit_success" THEN cleanup_and_exit(EXIT_SUCCESS)
              ELSE /\ pc' = d.next
                   /\ UNCHANGED << runtimefds, lock_held, pid_file_exists, exit_code >>
    /\ UNCHANGED << ticks, option, shutdown_requested, handlers_installed, handler_logged,
                    pid, timeout_cnt, child_status, forks, signals_sent >>

\* one iteration of the watch loop with the flag clear and the target dead:
\* waitpid(WNOHANG) returns pid, main() decides
WatchReap ==
    /\ UNCHANGED << dvars, cvars >>
    /\ pc = "watch"
    /\ shutdown_requested = 0
    /\ child_state = "zombie"
    /\ child_state' = "reaped"
    /\ reaps' = reaps + 1
    /\ status' = child_status
    /\ LET d == Decision(option, respawn_cnt, child_status)
       IN  /\ respawn_cnt' = d.cnt
           /\ IF d.next = "exit_failure" THEN cleanup_and_exit(EXIT_FAILURE)
              ELSE IF d.next = "exit_success" THEN cleanup_and_exit(EXIT_SUCCESS)
              ELSE /\ pc' = d.next
                   /\ UNCHANGED << runtimefds, lock_held, pid_file_exists, exit_code >>
    /\ UNCHANGED << ticks, option, shutdown_requested, handlers_installed, handler_logged,
                    pid, timeout_cnt, child_status, forks, signals_sent >>

\* sleep(option.respawn_delay) returns
RespawnDelay ==
    /\ UNCHANGED << dvars, cvars >>
    /\ pc = "delay"
    /\ pc' = "fork"
    /\ UNCHANGED << ticks, option, runtimefds, shutdown_requested, handlers_installed,
                    handler_logged, pid, status, respawn_cnt, timeout_cnt, exit_code,
                    child_state, child_status, forks, reaps, signals_sent,
                    pid_file_exists, lock_held >>

\* the watch loop finds the flag set: graceful_shutdown() starts, sends
\* SIGTERM and sets its tick counter
ShutdownBegin ==
    /\ UNCHANGED << dvars, cvars >>
    /\ pc = "watch"
    /\ shutdown_requested # 0
    /\ pid > 0
    /\ timeout_cnt' = GRACE_TICKS
    /\ signals_sent' = Append(signals_sent, SIGTERM)
    /\ pc' = "shutdown_wait"
    /\ UNCHANGED << ticks, option, runtimefds, shutdown_requested, handlers_installed,
                    handler_logged, pid, status, respawn_cnt, exit_code, child_state,
                    child_status, forks, reaps, pid_file_exists, lock_held >>

\* one tick of graceful_shutdown(): usleep, waitpid(WNOHANG); the target is
\* reaped (return, then cleanup_and_exit(EXIT_SUCCESS) in main) or not
ShutdownTick ==
    /\ UNCHANGED << dvars, cvars >>
    /\ pc = "shutdown_wait"
    /\ timeout_cnt > 0
    /\ ticks' = ticks + 1
    /\ IF child_state = "zombie"
       THEN /\ child_state' = "reaped"
            /\ reaps' = reaps + 1
            /\ cleanup_and_exit(EXIT_SUCCESS)
            /\ UNCHANGED timeout_cnt
       ELSE /\ timeout_cnt' = timeout_cnt - 1
            /\ UNCHANGED << child_state, reaps, runtimefds, lock_held,
                            pid_file_exists, exit_code, pc >>
    /\ UNCHANGED << option, shutdown_requested, handlers_installed, handler_logged,
                    pid, status, respawn_cnt, child_status, forks, signals_sent >>

\* the ticks are used up and SIGTERM is sent once more
ShutdownKill_term ==
    /\ UNCHANGED << dvars, cvars >>
    /\ pc = "shutdown_wait"
    /\ ~(timeout_cnt > 0)
    /\ signals_sent' = Append(signals_sent, SIGTERM)
    /\ pc' = "kill_wait"
    /\ UNCHANGED << ticks, option, runtimefds, shutdown_requested, handlers_installed,
                    handler_logged, pid, status, respawn_cnt, timeout_cnt, exit_code,
                    child_state, child_status, forks, reaps, pid_file_exists,
                    lock_held >>

\* the ticks are used up: SIGKILL, which ends a target that still runs
ShutdownKill ==
    /\ UNCHANGED << dvars, cvars >>
    /\ pc = "shutdown_wait"
    /\ ~(timeout_cnt > 0)
    /\ signals_sent' = Append(signals_sent, SIGKILL)
    /\ IF child_state = "zombie"
       THEN UNCHANGED << child_state, child_status >>
       ELSE /\ child_state' = "zombie"
            /\ child_status' = W_SIGNALED(SIGKILL)
    /\ pc' = "kill_wait"
    /\ UNCHANGED << ticks, option, runtimefds, shutdown_requested, handlers_installed,
                    handler_logged, pid, status, respawn_cnt, timeout_cnt, exit_code,
                    forks, reaps, pid_file_exists, lock_held >>

\* waitpid(pid, NULL, 0) returns, graceful_shutdown() returns, main() exits
ShutdownReap ==
    /\ UNCHANGED << dvars, cvars >>
    /\ pc = "kill_wait"
    /\ child_state = "zombie"
    /\ child_state' = "reaped"
    /\ reaps' = reaps + 1
    /\ cleanup_and_exit(EXIT_SUCCESS)
    /\ UNCHANGED << ticks, option, shutdown_requested, handlers_installed, handler_logged,
                    pid, status, respawn_cnt, timeout_cnt, child_status, forks,
                    signals_sent >>

\* ------------------------------------------------------- the target
\* The forked child inherits the pid-file descriptor (no close-on-exec, no
\* close before execv) and holds no lock, since record locks are not
\* inherited across fork().  When it exits the kernel closes its copy and
\* drops the locks of the closing process only: held tells whether the
\* supervisor holds the lock, before and after.
TargetCloses_any(held) == FALSE
TargetCloses(held) == held

\* the forked child runs its setup and execv(): the target runs, or the
\* child exits with the reserved code
ChildExec ==
    /\ UNCHANGED << dvars, cvars >>
    /\ child_state = "setup"
    /\ child_state' = "running"
    /\ UNCHANGED << ticks, option, runtimefds, shutdown_requested, handlers_installed,
                    handler_logged, pc, pid, status, respawn_cnt, timeout_cnt,
                    exit_code, child_status, forks, reaps, signals_sent,
                    pid_file_exists, lock_held >>

ChildSetupFail ==
    /\ UNCHANGED << dvars, cvars >>
    /\ child_state = "setup"
    /\ child_state' = "zombie"
    /\ child_status' = W_EXITCODE(CHILD_EXEC_ERR_CODE)
    /\ lock_held' = TargetCloses(lock_held)
    /\ UNCHANGED << ticks, option, runtimefds, shutdown_requested, handlers_installed,
                    handler_logged, pc, pid, status, respawn_cnt, timeout_cnt,
                    exit_code, forks, reaps, signals_sent, pid_file_exists >>

\* what a target answers SIGTERM with
TermStatuses == {W_SIGNALED(SIGTERM), W_EXITCODE(0), W_EXITCODE(CHILD_EXEC_ERR_CODE)}

\* the running target terminates: by itself (at most MaxDeaths targets do),
\* or once the supervisor has sent it SIGTERM
ChildExit ==
    /\ UNCHANGED << dvars, cvars >>
    /\ child_state = "running"
    /\ Alive
    /\ \E s \in Statuses :
         /\ IF signals_sent = << >> THEN forks <= MaxDeaths ELSE s \in TermStatuses
         /\ child_status' = s
    /\ child_state' = "zombie"
    /\ lock_held' = TargetCloses(lock_held)
    /\ UNCHANGED << ticks, option, runtimefds, shutdown_requested, handlers_installed,
                    handler_logged, pc, pid, status, respawn_cnt, timeout_cnt,
                    exit_code, forks, reaps, signals_sent, pid_file_exists >>


\* rc = daemonize(option.pid_file) returns -1: main() calls
\* cleanup_and_exit(EXIT_FAILURE) with runtimefds.pid_fd still -1.  The pid
\* file may have been left at its path (left) or not.
MainDaemonizeFail ==
    /\ UNCHANGED << dvars, cvars >>
    /\ pc = "daemonize"
    /\ \E left \in BOOLEAN :
         /\ left => option.pid_file
         /\ pid_file_exists' = left
    /\ runtimefds' = RUNTIMEFDS_INITIALIZER
    /\ lock_held' = FALSE
    /\ exit_code' = EXIT_FAILURE
    /\ pc' = "exited"
    /\ UNCHANGED << ticks, option, shutdown_requested, handlers_installed, handler_logged,
                    pid, status, respawn_cnt, timeout_cnt, child_state,
                    child_status, forks, reaps, signals_sent >>

Supervisor ==
    \/ MainDaemonizeOk
    \/ MainDaemonizeFail
    \/ ForkFail
    \/ ForkOk
    \/ sigaction_init
    \/ WatchPoll
    \/ WatchReap
    \/ RespawnDelay
    \/ ShutdownBegin
    \/ ShutdownTick
    \/ ShutdownKill
    \/ ShutdownReap

Environment ==
    \/ sigaction_handler
    \/ SignalDefault
    \/ ChildExec
    \/ ChildSetupFail
    \/ ChildExit

\* ------------------------------------------------- the daemonization
\* the invocations that run at the same time hold these slots
Slots == {1, 2}
\* invocations started in all (a slot whose processes have all exited can
\* hold a later invocation)
MaxStarts == 2

Parent(i) == 2 * i - 1
Child(i) == 2 * i
SlotOf(p) == (p + 1) \div 2
IsChild(p) == p % 2 = 0
Procs == UNION { {Parent(i), Child(i)} : i \in Slots }
\* getpid(): no two processes of a run of the model share a pid
getpid(p) == 2 * Cardinality(Slots) * run[SlotOf(p)] + p

NoInode == [content |-> 0, lock |-> 0]

InitD ==
    /\ starts = 0
    /\ run = [i \in Slots |-> 0]
    /\ pid_file = [i \in Slots |-> FALSE]
    /\ pid_fd = [i \in Slots |-> 0]
    /\ dpc = [p \in Procs |-> "none"]
    /\ dfd = [p \in Procs |-> 0]
    /\ dexit = [p \in Procs |-> -1]
    /\ dcode = [p \in Procs |-> -1]
    /\ diag = [p \in Procs |-> "none"]
    /\ pipe = [i \in Slots |-> 0]
    /\ path_ino = 0
    /\ inodes = << >>

\* what the kernel does with the locks of a process that closes a descriptor
\* of inode ino (or exits with one open): all its locks on ino are dropped
ReleaseLock(inos, ino, holder) ==
    IF ino # 0 /\ inos[ino].lock = holder
    THEN [inos EXCEPT ![ino].lock = 0]
    ELSE inos

\* no process of slot i is alive
Free(i) == dpc[Parent(i)] \in {"none", "exited"} /\ dpc[Child(i)] \in {"none", "exited"}

\* the shell starts the program in the first free slot, with --pidfile P or
\* with no pid file: daemonize(pid_file) begins, with int pid_fd = 0
Start(i) ==
    /\ UNCHANGED << svars, cvars >>
    /\ starts < MaxStarts
    /\ Free(i)
    /\ \A j \in Slots : j < i => ~Free(j)
    /\ starts' = starts + 1
    /\ run' = [run EXCEPT ![i] = starts + 1]
    /\ pid_fd' = [pid_fd EXCEPT ![i] = 0]
    /\ \E given \in BOOLEAN :
         /\ pid_file' = [pid_file EXCEPT ![i] = given]
         /\ dpc' = [dpc EXCEPT ![Parent(i)] = IF given THEN "open" ELSE "fork",
                               ![Child(i)] = "none"]
    /\ dfd' = [dfd EXCEPT ![Parent(i)] = 0, ![Child(i)] = 0]
    /\ dexit' = [dexit EXCEPT ![Parent(i)] = -1, ![Child(i)] = -1]
    /\ dcode' = [dcode EXCEPT ![Parent(i)] = -1, ![Child(i)] = -1]
    /\ pipe' = [pipe EXCEPT ![i] = 0]
    /\ UNCHANGED << path_ino, inodes >>
    /\ diag' = [diag EXCEPT ![Parent(i)] = "none", ![Child(i)] = "none"]

\* the numbers open() can return in the detached process: the lowest free
\* descriptor, which is 0 when the program was started with descriptor 0
\* closed and the first one past the standard descriptors otherwise
OpenFds == {STDIN_FILENO, PID_FD}

\* test_running: open(pid_file, O_RDWR | O_CREAT) succeeds; the file is
\* created when the path names none.  The number of the descriptor is kept
\* for the detached process, where daemonize() returns it.
TROpen(p) ==
    /\ UNCHANGED << svars, cvars >>
    /\ UNCHANGED pid_file
    /\ IF IsChild(p)
       THEN \E n \in OpenFds : pid_fd' = [pid_fd EXCEPT ![SlotOf(p)] = n]
       ELSE UNCHANGED pid_fd
    /\ dpc[p] = "open"
    /\ IF path_ino = 0
       THEN /\ inodes' = Append(inodes, NoInode)
            /\ path_ino' = Len(inodes) + 1
            /\ dfd' = [dfd EXCEPT ![p] = Len(inodes) + 1]
       ELSE /\ dfd' = [dfd EXCEPT ![p] = path_ino]
            /\ UNCHANGED << inodes, path_ino >>
    /\ dpc' = [dpc EXCEPT ![p] = "lock"]
    /\ UNCHANGED << starts, run, dexit, dcode, pipe >>
    /\ UNCHANGED diag

\* test_running: open() fails, return -1
TROpenFail(p) ==
    /\ UNCHANGED << svars, cvars >>
    /\ UNCHANGED pid_file
    /\ pid_fd' = IF IsChild(p) THEN [pid_fd EXCEPT ![SlotOf(p)] = -1] ELSE pid_fd
    /\ dpc[p] = "open"
    /\ dpc' = [dpc EXCEPT ![p] = "ret_fail"]
    /\ UNCHANGED << starts, run, dfd, dexit, dcode, pipe, path_ino, inodes >>
    /\ diag' = [diag EXCEPT ![p] = "open"]

\* lock_pid_file: fcntl(fd, F_SETLK) of a write lock on the whole file fails
\* iff another process holds a lock on the file
lock_pid_file(p) ==
    inodes[dfd[p]].lock \in {0, getpid(p)}

\* test_running: the lock is taken, or it is refused: close(fd), return -1
TRLock(p) ==
    /\ UNCHANGED << svars, cvars >>
    /\ UNCHANGED pid_file
    /\ dpc[p] = "lock"
    /\ IF lock_pid_file(p)
       THEN /\ inodes' = [inodes EXCEPT ![dfd[p]].lock = getpid(p)]
            /\ dpc' = [dpc EXCEPT ![p] = "truncate"]
            /\ UNCHANGED << dfd, diag, pid_fd >>
       ELSE /\ inodes' = ReleaseLock(inodes, dfd[p], getpid(p))
            /\ pid_fd' = IF IsChild(p) THEN [pid_fd EXCEPT ![SlotOf(p)] = -1] ELSE pid_fd
            /\ dfd' = [dfd EXCEPT ![p] = 0]
            /\ dpc' = [dpc EXCEPT ![p] = "ret_fail"]
            /\ diag' = [diag EXCEPT ![p] = "lock"]
    /\ UNCHANGED << starts, run, dexit, dcode, pipe, path_ino >>

\* test_running: ftruncate(fd, 0); lseek(fd, 0, SEEK_SET)
TRTruncate(p) ==
    /\ UNCHANGED << svars, cvars >>
    /\ UNCHANGED << pid_file, pid_fd >>
    /\ dpc[p] = "truncate"
    /\ inodes' = [inodes EXCEPT ![dfd[p]].content = 0]
    /\ dpc' = [dpc EXCEPT ![p] = "write"]
    /\ UNCHANGED << starts, run, dfd, dexit, dcode, pipe, path_ino >>
    /\ UNCHANGED diag

\* test_running: dprintf(fd, "%d\n", getpid()); return fd
TRWrite(p) ==
    /\ UNCHANGED << svars, cvars >>
    /\ UNCHANGED << pid_file, pid_fd >>
    /\ dpc[p] = "write"
    /\ inodes' = [inodes EXCEPT ![dfd[p]].content = getpid(p)]
    /\ dpc' = [dpc EXCEPT ![p] = IF IsChild(p) THEN "devnull" ELSE "pipe"]
    /\ UNCHANGED << starts, run, dfd, dexit, dcode, pipe, path_ino >>
    /\ UNCHANGED diag

\* daemonize: pipe(pipefd) succeeds
PipeOk(i) ==
    /\ UNCHANGED << svars, cvars >>
    /\ UNCHANGED << pid_file, pid_fd >>
    /\ dpc[Parent(i)] = "pipe"
    /\ dpc' = [dpc EXCEPT ![Parent(i)] = "fork"]
    /\ UNCHANGED << starts, run, dfd, dexit, dcode, pipe, path_ino, inodes >>
    /\ UNCHANGED diag

\* daemonize: pipe(pipefd) fails, return -1 (pid_fd stays open)
PipeFail(i) ==
    /\ UNCHANGED << svars, cvars >>
    /\ UNCHANGED << pid_file, pid_fd >>
    /\ dpc[Parent(i)] = "pipe"
    /\ dpc' = [dpc EXCEPT ![Parent(i)] = "ret_fail"]
    /\ UNCHANGED << starts, run, dfd, dexit, dcode, pipe, path_ino, inodes >>
    /\ diag' = [diag EXCEPT ![Parent(i)] = "pipe"]

\* daemonize: fork() fails: the pipe is closed, return -1 (pid_fd stays open)
DaemonForkFail(i) ==
    /\ UNCHANGED << svars, cvars >>
    /\ UNCHANGED << pid_file, pid_fd >>
    /\ dpc[Parent(i)] = "fork"
    /\ dpc' = [dpc EXCEPT ![Parent(i)] = "ret_fail"]
    /\ UNCHANGED << starts, run, dfd, dexit, dcode, pipe, path_ino, inodes >>
    /\ diag' = [diag EXCEPT ![Parent(i)] = "fork"]

\* daemonize: fork() succeeds: the child has the parent's descriptors and
\* none of its locks
DaemonFork(i) ==
    /\ UNCHANGED << svars, cvars >>
    /\ UNCHANGED << pid_file, pid_fd >>
    /\ dpc[Parent(i)] = "fork"
    /\ dpc' = IF pid_file[i]
              THEN [dpc EXCEPT ![Parent(i)] = "p_close", ![Child(i)] = "c_close"]
              ELSE [dpc EXCEPT ![Parent(i)] = "p_exit", ![Child(i)] = "devnull"]
    /\ dfd' = [dfd EXCEPT ![Child(i)] = dfd[Parent(i)]]
    /\ UNCHANGED << starts, run, dexit, dcode, pipe, path_ino, inodes >>
    /\ UNCHANGED diag

\* parent: close(pipefd[0]); close(pid_fd), which releases the lock
ParentClose(i) ==
    /\ UNCHANGED << svars, cvars >>
    /\ UNCHANGED << pid_file, pid_fd >>
    /\ dpc[Parent(i)] = "p_close"
    /\ inodes' = ReleaseLock(inodes, dfd[Parent(i)], getpid(Parent(i)))
    /\ dfd' = [dfd EXCEPT ![Parent(i)] = 0]
    /\ dpc' = [dpc EXCEPT ![Parent(i)] = "p_write"]
    /\ UNCHANGED << starts, run, dexit, dcode, pipe, path_ino >>
    /\ UNCHANGED diag

\* parent: write(pipefd[1], &sync_w, 1); close(pipefd[1])
ParentWrite(i) ==
    /\ UNCHANGED << svars, cvars >>
    /\ UNCHANGED << pid_file, pid_fd >>
    /\ dpc[Parent(i)] = "p_write"
    /\ pipe' = [pipe EXCEPT ![i] = 1]
    /\ dpc' = [dpc EXCEPT ![Parent(i)] = "p_exit"]
    /\ UNCHANGED << starts, run, dfd, dexit, dcode, path_ino, inodes >>
    /\ UNCHANGED diag

\* parent: exit(EXIT_SUCCESS)
ParentExit(i) ==
    /\ UNCHANGED << svars, cvars >>
    /\ UNCHANGED << pid_file, pid_fd >>
    /\ dpc[Parent(i)] = "p_exit"
    /\ dexit' = [dexit EXCEPT ![Parent(i)] = EXIT_SUCCESS]
    /\ dpc' = [dpc EXCEPT ![Parent(i)] = "exited"]
    /\ UNCHANGED << starts, run, dfd, dcode, pipe, path_ino, inodes >>
    /\ UNCHANGED diag

\* child: close(pipefd[1]); close(pid_fd)
ChildClose(i) ==
    /\ UNCHANGED << svars, cvars >>
    /\ UNCHANGED << pid_file, pid_fd >>
    /\ dpc[Child(i)] = "c_close"
    /\ inodes' = ReleaseLock(inodes, dfd[Child(i)], getpid(Child(i)))
    /\ dfd' = [dfd EXCEPT ![Child(i)] = 0]
    /\ dpc' = [dpc EXCEPT ![Child(i)] = "c_read"]
    /\ UNCHANGED << starts, run, dexit, dcode, pipe, path_ino >>
    /\ UNCHANGED diag

\* the child goes on to test_running without waiting for the byte
ChildRead_nowait(i) ==
    /\ UNCHANGED << svars, cvars >>
    /\ UNCHANGED << pid_file, pid_fd >>
    /\ dpc[Child(i)] = "c_read"
    /\ pipe' = [pipe EXCEPT ![i] = 0]
    /\ dpc' = [dpc EXCEPT ![Child(i)] = "open"]
    /\ UNCHANGED << starts, run, dfd, dexit, dcode, path_ino, inodes >>
    /\ UNCHANGED diag

\* child: read(pipefd[0], &sync_r, 1) returns; close(pipefd[0]); the child
\* goes on to test_running
ChildRead(i) ==
    /\ UNCHANGED << svars, cvars >>
    /\ UNCHANGED << pid_file, pid_fd >>
    /\ dpc[Child(i)] = "c_read"
    /\ pipe[i] > 0
    /\ pipe' = [pipe EXCEPT ![i] = 0]
    /\ dpc' = [dpc EXCEPT ![Child(i)] = "open"]
    /\ UNCHANGED << starts, run, dfd, dexit, dcode, path_ino, inodes >>
    /\ UNCHANGED diag

\* child: setsid, umask, chdir and open("/dev/null") succeed;
\* dup2(null_fd, STDIN_FILENO) closes what descriptor 0 was open on, the
\* pid file when pid_fd is 0; daemonize returns pid_fd, main() keeps it in
\* runtimefds.pid_fd when it is positive and enters the supervision loop
DevNullOk(i) ==
    /\ UNCHANGED << svars, cvars >>
    /\ UNCHANGED << pid_file, pid_fd >>
    /\ dpc[Child(i)] = "devnull"
    /\ dpc' = [dpc EXCEPT ![Child(i)] = "supervise"]
    /\ IF pid_file[i] /\ pid_fd[i] = STDIN_FILENO
       THEN /\ inodes' = ReleaseLock(inodes, dfd[Child(i)], getpid(Child(i)))
            /\ dfd' = [dfd EXCEPT ![Child(i)] = 0]
       ELSE UNCHANGED << dfd, inodes >>
    /\ UNCHANGED << starts, run, dexit, dcode, pipe, path_ino >>
    /\ UNCHANGED diag

\* child: open("/dev/null") fails: with a pid file close(pid_fd), then the
\* unlink; without one return -1
DevNullFail(i) ==
    /\ UNCHANGED << svars, cvars >>
    /\ UNCHANGED << pid_file, pid_fd >>
    /\ dpc[Child(i)] = "devnull"
    /\ inodes' = ReleaseLock(inodes, dfd[Child(i)], getpid(Child(i)))
    /\ dfd' = [dfd EXCEPT ![Child(i)] = 0]
    /\ dpc' = [dpc EXCEPT ![Child(i)] = IF pid_file[i] THEN "dn_unlink" ELSE "ret_fail"]
    /\ UNCHANGED << starts, run, dexit, dcode, pipe, path_ino >>
    /\ diag' = [diag EXCEPT ![Child(i)] = "devnull"]

\* child: unlink(pid_file); return -1
DevNullUnlink(i) ==
    /\ UNCHANGED << svars, cvars >>
    /\ UNCHANGED << pid_file, pid_fd >>
    /\ dpc[Child(i)] = "dn_unlink"
    /\ path_ino' = 0
    /\ dpc' = [dpc EXCEPT ![Child(i)] = "ret_fail"]
    /\ UNCHANGED << starts, run, dfd, dexit, dcode, pipe, inodes >>
    /\ UNCHANGED diag

\* main: daemonize returned -1 and cleanup_and_exit unlinks the pid file
\* without looking at runtimefds.pid_fd
MainFail_unlink(p) ==
    /\ UNCHANGED << svars, cvars >>
    /\ UNCHANGED << pid_file, pid_fd >>
    /\ dpc[p] = "ret_fail"
    /\ inodes' = ReleaseLock(inodes, dfd[p], getpid(p))
    /\ dfd' = [dfd EXCEPT ![p] = 0]
    /\ path_ino' = 0
    /\ dexit' = [dexit EXCEPT ![p] = EXIT_FAILURE]
    /\ dpc' = [dpc EXCEPT ![p] = "exited"]
    /\ UNCHANGED << starts, run, dcode, pipe, diag >>

\* main: daemonize returned -1: cleanup_and_exit(EXIT_FAILURE) with
\* runtimefds.pid_fd = -1 closes and unlinks nothing; exit() closes the
\* descriptors still open
MainFail(p) ==
    /\ UNCHANGED << svars, cvars >>
    /\ UNCHANGED << pid_file, pid_fd >>
    /\ dpc[p] = "ret_fail"
    /\ inodes' = ReleaseLock(inodes, dfd[p], getpid(p))
    /\ dfd' = [dfd EXCEPT ![p] = 0]
    /\ dexit' = [dexit EXCEPT ![p] = EXIT_FAILURE]
    /\ dpc' = [dpc EXCEPT ![p] = "exited"]
    /\ UNCHANGED << starts, run, dcode, pipe, path_ino >>
    /\ UNCHANGED diag

\* main: the supervision loop ends in cleanup_and_exit(code).  With
\* runtimefds.pid_fd set (daemonize returned a positive number) it closes
\* the descriptor and goes on to the unlink; otherwise it exits
CleanupClose(i) ==
    /\ UNCHANGED << svars, cvars >>
    /\ UNCHANGED << pid_file, pid_fd >>
    /\ dpc[Child(i)] = "supervise"
    /\ inodes' = ReleaseLock(inodes, dfd[Child(i)], getpid(Child(i)))
    /\ dfd' = [dfd EXCEPT ![Child(i)] = 0]
    /\ \E code \in {EXIT_SUCCESS, EXIT_FAILURE} :
         IF pid_fd[i] > 0
         THEN /\ dcode' = [dcode EXCEPT ![Child(i)] = code]
              /\ dpc' = [dpc EXCEPT ![Child(i)] = "cl_unlink"]
              /\ UNCHANGED dexit
         ELSE /\ dcode' = [dcode EXCEPT ![Child(i)] = code]
              /\ dexit' = [dexit EXCEPT ![Child(i)] = code]
              /\ dpc' = [dpc EXCEPT ![Child(i)] = "exited"]
    /\ UNCHANGED << starts, run, pipe, path_ino >>
    /\ UNCHANGED diag

\* cleanup_and_exit: unlink(option.pid_file); exit(code)
CleanupUnlink(i) ==
    /\ UNCHANGED << svars, cvars >>
    /\ UNCHANGED << pid_file, pid_fd >>
    /\ dpc[Child(i)] = "cl_unlink"
    /\ path_ino' = 0
    /\ dexit' = [dexit EXCEPT ![Child(i)] = dcode[Child(i)]]
    /\ dpc' = [dpc EXCEPT ![Child(i)] = "exited"]
    /\ UNCHANGED << starts, run, dfd, dcode, pipe, inodes >>
    /\ UNCHANGED diag

Daemon ==
    \/ \E i \in Slots : Start(i)
    \/ \E p \in Procs : TROpen(p)
    \/ \E p \in Procs : TROpenFail(p)
    \/ \E p \in Procs : TRLock(p)
    \/ \E p \in Procs : TRTruncate(p)
    \/ \E p \in Procs : TRWrite(p)
    \/ \E i \in Slots : PipeOk(i)
    \/ \E i \in Slots : PipeFail(i)
    \/ \E i \in Slots : DaemonForkFail(i)
    \/ \E i \in Slots : DaemonFork(i)
    \/ \E i \in Slots : ParentClose(i)
    \/ \E i \in Slots : ParentWrite(i)
    \/ \E i \in Slots : ParentExit(i)
    \/ \E i \in Slots : ChildClose(i)
    \/ \E i \in Slots : ChildRead(i)
    \/ \E i \in Slots : DevNullOk(i)
    \/ \E i \in Slots : DevNullFail(i)
    \/ \E i \in Slots : DevNullUnlink(i)
    \/ \E p \in Procs : MainFail(p)
    \/ \E i \in Slots : CleanupClose(i)
    \/ \E i \in Slots : CleanupUnlink(i)

\* ------------------------------------------------- the forked child
\* the highest descriptor number of the child's table
MaxFd == 6

Descriptors == 0 .. MaxFd

Closed == [file |-> "closed", cloexec |-> FALSE]

\* open() and dup2() without O_CLOEXEC: the descriptor stays open over exec
Opened(f) == [file |-> f, cloexec |-> FALSE]

\* the number open() returns: the lowest descriptor that is not open
LowestFree(fds) ==
    CHOOSE n \in DOMAIN fds :
        /\ fds[n] = Closed
        /\ \A m \in DOMAIN fds : m < n => fds[m] # Closed

\* no account: user is NULL, uid and gid are 0
NoUser == [user |-> FALSE, uid |-> 0, gid |-> 0]

\* the accounts --user can name: uid and gid as resolved from the account
\* name, one whose group id equals its user id and one where they differ
RunUsers ==
    { [user |-> TRUE, uid |-> 1000, gid |-> 1000],
      [user |-> TRUE, uid |-> 1000, gid |-> 100] }

\* the fields of option the child reads, as the parser leaves them
ChildOptions ==
    { [ stdout_file |-> o, stderr_file |-> e, working_dir |-> w,
        user |-> u.user, uid |-> u.uid, gid |-> u.gid,
        environment_cnt |-> n, pid_file |-> p ] :
      o \in BOOLEAN, e \in BOOLEAN, w \in BOOLEAN, p \in BOOLEAN,
      n \in {0, 1}, u \in RunUsers \cup {NoUser} }

\* the descriptor table daemonize() leaves: the pid file on the descriptor
\* it returns, opened without O_CLOEXEC, /dev/null on null_fd (never
\* closed) and on the three standard descriptors.  The connection to the
\* system logger, which the C library opens close-on-exec, is left out.
DaemonizedFds(opt) ==
    LET t0 == [n \in Descriptors |-> Closed]
        t1 == [t0 EXCEPT ![STDIN_FILENO] = Opened("tty"),
                         ![STDOUT_FILENO] = Opened("tty"),
                         ![STDERR_FILENO] = Opened("tty")]
        t2 == IF opt.pid_file
              THEN [t1 EXCEPT ![LowestFree(t1)] = Opened("pid_file")]
              ELSE t1
        t3 == [t2 EXCEPT ![LowestFree(t2)] = Opened("/dev/null")]
    IN  [t3 EXCEPT ![STDIN_FILENO] = Opened("/dev/null"),
                   ![STDOUT_FILENO] = Opened("/dev/null"),
                   ![STDERR_FILENO] = Opened("/dev/null")]

\* fork() has returned 0: the child has a copy of the supervisor's option,
\* runtimefds and descriptor table; the supervisor runs as root in "/"
InitChild(opts) ==
    /\ child_option \in opts
    /\ child_runtimefds =
         [RUNTIMEFDS_INITIALIZER EXCEPT
            !.pid_fd = IF child_option.pid_file THEN PID_FD ELSE @]
    /\ child_pc = "setsid"
    /\ child_fds = DaemonizedFds(child_option)
    /\ child_cwd = "/"
    /\ child_env = {}
    /\ child_ids = [uid |-> 0, gid |-> 0]
    /\ child_calls = << >>
    /\ child_failed = {}
    /\ child_exit = -1

\* setsid(); umask(0);
child_setsid ==
    /\ UNCHANGED << svars, dvars >>
    /\ child_pc = "setsid"
    /\ child_pc' = "chdir"
    /\ UNCHANGED << child_option, child_runtimefds, child_fds, child_cwd, child_env,
                    child_ids, child_calls, child_failed, child_exit >>

\* a chdir whose failure ends the child with the reserved code
child_chdir_checked ==
    /\ UNCHANGED << svars, dvars >>
    /\ child_pc = "chdir"
    /\ \E ok \in BOOLEAN :
         IF child_option.working_dir /\ ~ok
         THEN /\ child_failed' = child_failed \cup {"chdir"}
              /\ child_exit' = CHILD_EXEC_ERR_CODE
              /\ child_pc' = "exited"
              /\ UNCHANGED child_cwd
         ELSE /\ child_cwd' = IF child_option.working_dir THEN "working_dir" ELSE child_cwd
              /\ child_pc' = "set_environments"
              /\ UNCHANGED << child_failed, child_exit >>
    /\ UNCHANGED << child_option, child_runtimefds, child_fds, child_env,
                    child_ids, child_calls >>

\* if (option.working_dir) chdir(option.working_dir); the result of chdir
\* is not looked at
child_chdir ==
    /\ UNCHANGED << svars, dvars >>
    /\ child_pc = "chdir"
    /\ IF child_option.working_dir
       THEN \E ok \in BOOLEAN :
              /\ child_cwd' = IF ok THEN "working_dir" ELSE child_cwd
              /\ child_failed' = IF ok THEN child_failed ELSE child_failed \cup {"chdir"}
       ELSE UNCHANGED << child_cwd, child_failed >>
    /\ child_pc' = "set_environments"
    /\ UNCHANGED << child_option, child_runtimefds, child_fds, child_env,
                    child_ids, child_calls, child_exit >>

\* set_environments(&option): putenv of every --env entry
set_environments ==
    /\ UNCHANGED << svars, dvars >>
    /\ child_pc = "set_environments"
    /\ child_env' = IF child_option.environment_cnt > 0
                    THEN child_env \cup {"ENV"} ELSE child_env
    /\ child_pc' = "redirect_std_fds"
    /\ UNCHANGED << child_option, child_runtimefds, child_fds, child_cwd,
                    child_ids, child_calls, child_failed, child_exit >>

\* one branch of redirect_std_fds: with the file given, open it; on success
\* dup2 the new descriptor to std, on failure only log.  The result is the
\* descriptor table, the value stored in runtimefds and the failure noted.
redirect(fds, given, ok, std, name) ==
    IF ~given THEN [fds |-> fds, fd |-> -1, failed |-> {}]
    ELSE IF ok
    THEN LET n == LowestFree(fds)
         IN  [fds |-> [fds EXCEPT ![n] = Opened(name), ![std] = Opened(name)],
              fd |-> n, failed |-> {}]
    ELSE [fds |-> fds, fd |-> -1, failed |-> {name}]

\* redirect_std_fds(&option, &runtimefds): the stdout file, then the stderr
\* file
redirect_std_fds ==
    /\ UNCHANGED << svars, dvars >>
    /\ child_pc = "redirect_std_fds"
    /\ \E out_ok \in BOOLEAN, err_ok \in BOOLEAN :
         LET o == redirect(child_fds, child_option.stdout_file, out_ok,
                           STDOUT_FILENO, "stdout_file")
             e == redirect(o.fds, child_option.stderr_file, err_ok,
                           STDERR_FILENO, "stderr_file")
         IN  /\ child_fds' = e.fds
             /\ child_runtimefds' =
                  [child_runtimefds EXCEPT
                     !.stdout_fd = IF child_option.stdout_file THEN o.fd ELSE @,
                     !.stderr_fd = IF child_option.stderr_file THEN e.fd ELSE @]
             /\ child_failed' = child_failed \cup o.failed \cup e.failed
    /\ child_pc' = "set_user_and_group"
    /\ UNCHANGED << child_option, child_cwd, child_env, child_ids, child_calls,
                    child_exit >>

IdCalls == {"initgroups", "setgid", "setuid"}

\* set_user_and_group(opt) in a process with the ids given, the call named
\* by failing returning -1 ("none": every call succeeds): initgroups,
\* setgid(opt->gid), setuid(opt->gid), then USER, LOGNAME and HOME
set_user_and_group(opt, ids, failing) ==
    IF ~opt.user
    THEN [rc |-> 0, ids |-> ids, calls |-> << >>, env |-> {}, failed |-> {}]
    ELSE IF failing = "initgroups"
    THEN [rc |-> -1, ids |-> ids, calls |-> << >>, env |-> {},
          failed |-> {"initgroups"}]
    ELSE IF failing = "setgid"
    THEN [rc |-> -1, ids |-> ids, calls |-> << "initgroups" >>, env |-> {},
          failed |-> {"setgid"}]
    ELSE IF failing = "setuid"
    THEN [rc |-> -1, ids |-> [ids EXCEPT !.gid = opt.gid],
          calls |-> << "initgroups", "setgid" >>, env |-> {},
          failed |-> {"setuid"}]
    ELSE [rc |-> 0, ids |-> [uid |-> opt.gid, gid |-> opt.gid],
          calls |-> << "initgroups", "setgid", "setuid" >>,
          env |-> {"USER", "LOGNAME", "HOME"}, failed |-> {}]

\* rc = set_user_and_group(&option); if (rc < 0) exit(CHILD_EXEC_ERR_CODE);
child_switch_user ==
    /\ UNCHANGED << svars, dvars >>
    /\ child_pc = "set_user_and_group"
    /\ \E failing \in IdCalls \cup {"none"} :
         LET r == set_user_and_group(child_option, child_ids, failing)
         IN  /\ child_ids' = r.ids
             /\ child_calls' = child_calls \o r.calls
             /\ child_env' = child_env \cup r.env
             /\ child_failed' = child_failed \cup r.failed
             /\ IF r.rc < 0
                THEN /\ child_exit' = CHILD_EXEC_ERR_CODE
                     /\ child_pc' = "exited"
                ELSE /\ child_pc' = "execv"
                     /\ UNCHANGED child_exit
    /\ UNCHANGED << child_option, child_runtimefds, child_fds, child_cwd >>

\* execv(option.target, option.target_argv) succeeds: the target runs in
\* the child's process, with the descriptors that are not close-on-exec
execv_ok ==
    /\ UNCHANGED << svars, dvars >>
    /\ child_pc = "execv"
    /\ child_fds' = [n \in DOMAIN child_fds |->
                        IF child_fds[n].cloexec THEN Closed ELSE child_fds[n]]
    /\ child_pc' = "target"
    /\ UNCHANGED << child_option, child_runtimefds, child_cwd, child_env, child_ids,
                    child_calls, child_failed, child_exit >>

\* execv returns: exit(CHILD_EXEC_ERR_CODE)
execv_fail ==
    /\ UNCHANGED << svars, dvars >>
    /\ child_pc = "execv"
    /\ child_failed' = child_failed \cup {"execv"}
    /\ child_exit' = CHILD_EXEC_ERR_CODE
    /\ child_pc' = "exited"
    /\ UNCHANGED << child_option, child_runtimefds, child_fds, child_cwd, child_env,
                    child_ids, child_calls >>

ForkedChild ==
    \/ child_setsid
    \/ child_chdir
    \/ set_environments
    \/ redirect_std_fds
    \/ child_switch_user
    \/ execv_ok
    \/ execv_fail

\* --------------------------------------------------- specifications
\* the option record SpecD starts the supervisor part with; SpecD leaves the
\* supervisor part alone and draws pid_file per invocation in Start
DaemonCommandLine ==
    [ pidfile |-> TRUE, respawn |-> FALSE, codes |-> << >>, delay |-> << >>,
      max |-> << >> ]

Next == Supervisor \/ Environment

\* the child's part of the state where the child is not looked at
IdleChild ==
    InitChild({o \in ChildOptions :
                 /\ ~o.stdout_file /\ ~o.stderr_file /\ ~o.working_dir
                 /\ ~o.user /\ o.environment_cnt = 0 /\ ~o.pid_file})

InitSpec == InitS(CommandLines) /\ InitD /\ IdleChild

Spec == InitSpec /\ [][Next]_vars

\* the supervisor is scheduled: a step of main() that is possible is taken
FairSpec == Spec /\ WF_vars(Supervisor)

InitSpecD == InitS({DaemonCommandLine}) /\ InitD /\ IdleChild

SpecD == InitSpecD /\ [][Daemon]_vars

InitSpecC == InitS({DaemonCommandLine}) /\ InitD /\ InitChild(ChildOptions)

SpecC == InitSpecC /\ [][ForkedChild]_vars

\* ------------------------------------------------------------ claims
\* bit c of the 128-bit set: (word[c / 32] >> (c % 32)) & 1
BitOf(bits, c) == (c % 32) \in bits[(c \div 32) + 1]

CleanedUp ==
    /\ runtimefds = RUNTIMEFDS_INITIALIZER
    /\ ~lock_held
    /\ ~pid_file_exists

\* the watch loop has reaped the target and main() has decided
Decided == status # -1

\* after the decision: main() goes on to fork() again (and a fork() that
\* fails ends it with EXIT_FAILURE)
RespawnChosen ==
    \/ pc \in {"delay", "fork"}
    \/ pc = "exited" /\ exit_code = EXIT_FAILURE
\* after the decision: main() has left through cleanup_and_exit(EXIT_SUCCESS)
ExitChosen == pc = "exited" /\ exit_code = EXIT_SUCCESS /\ CleanedUp /\ forks = reaps

CapExhausted == option.max_respawn_cnt # 0 /\ respawn_cnt > option.max_respawn_cnt

C2_ReservedCodeFatal ==
    (Decided /\ status = W_EXITCODE(CHILD_EXEC_ERR_CODE)) =>
        /\ pc = "exited"
        /\ exit_code = EXIT_FAILURE
        /\ CleanedUp
        /\ forks = reaps

C2_Witness ==
    /\ Decided /\ status = W_EXITCODE(CHILD_EXEC_ERR_CODE)
    /\ option.respawn /\ option.max_respawn_cnt = 2 /\ option.pid_file
    /\ option.respawn_code_bits = [i \in 1 .. 4 |-> Word]
    /\ pc = "exited" /\ forks = 2

\* a death the policy respawns: by a signal, or a normal exit whose bit is set
Eligible(s) ==
    /\ option.respawn
    /\ \/ WIFSIGNALED(s)
       \/ /\ WIFEXITED(s)
          /\ WEXITSTATUS(s) < 128
          /\ BitOf(option.respawn_code_bits, WEXITSTATUS(s))

\* C3: with max_respawn_cnt = N > 0 the target is forked at most N + 1
\* times; each of the deaths 1..N that is eligible is followed by a new
\* fork, and death N + 1 by cleanup and exit 0 with no further fork.
C3_RespawnCap ==
    LET N == option.max_respawn_cnt
    IN  N > 0 =>
          /\ forks <= N + 1
          /\ respawn_cnt <= N + 1
          /\ (Decided /\ Eligible(status) /\ respawn_cnt <= N) => RespawnChosen
          /\ (Decided /\ respawn_cnt = N + 1) => (ExitChosen /\ forks = N + 1)

C3_Witness ==
    /\ option.max_respawn_cnt = 2
    /\ respawn_cnt = 3 /\ forks = 3 /\ Eligible(status)
    /\ pc = "exited" /\ exit_code = EXIT_SUCCESS

\* C9: graceful_shutdown sends SIGTERM first; SIGKILL is sent only after 50
\* waitpid(WNOHANG) ticks none of which reaped the target, and never when a
\* tick reaped it.
C9_KillAfterFiftyTicks ==
    /\ signals_sent \in {<< >>, << SIGTERM >>, << SIGTERM, SIGKILL >>}
    /\ ticks <= 50
    /\ ticks > 0 => signals_sent # << >>
    /\ signals_sent # << >> => ticks + timeout_cnt \in {50, 51}
    /\ pc = "shutdown_wait" => (signals_sent = << SIGTERM >> /\ ticks + timeout_cnt = 50)
    /\ signals_sent = << SIGTERM, SIGKILL >> =>
         /\ ticks = 50
         /\ pc \in {"kill_wait", "exited"}
         /\ pc = "kill_wait" => (child_state = "zombie" /\ reaps = forks - 1)
    /\ (pc = "exited" /\ signals_sent = << SIGTERM >>) =>
         (child_state = "reaped" /\ ticks \in 1 .. 50 /\ reaps = forks)

C9_Witness ==
    /\ signals_sent = << SIGTERM, SIGKILL >>
    /\ ticks = 50
    /\ pc = "exited"
    /\ child_status = W_SIGNALED(SIGKILL)

C11_SignalsGraceful == pc # "signaled"

\* C12: with respawn false the target is forked once: its first death,
\* whatever the status and the bitset, ends the supervisor, with status 0
\* unless the exit code is 254.
C12_NoRespawnOnce ==
    ~option.respawn =>
        /\ forks <= 1
        /\ Decided =>
             /\ pc = "exited"
             /\ CleanedUp
             /\ forks = reaps
             /\ exit_code = IF status = W_EXITCODE(CHILD_EXEC_ERR_CODE)
                            THEN EXIT_FAILURE ELSE EXIT_SUCCESS

C12_Witness ==
    /\ ~option.respawn
    /\ option.respawn_code_bits = [i \in 1 .. 4 |-> Word]
    /\ Decided /\ status = W_EXITCODE(1)
    /\ pc = "exited" /\ exit_code = EXIT_SUCCESS /\ forks = 1

\* bitsets to try a death by signal against: none set, all set
NoBits == [i \in 1 .. RESPAWN_CODE_BITS_ARRAY_SIZE |-> {}]
AllBits == [i \in 1 .. RESPAWN_CODE_BITS_ARRAY_SIZE |-> Word]

ExpectedBit(codes, c) ==
    IF codes = << >> THEN c # 0
    ELSE \E k \in 1 .. Len(codes) : codes[k] \in {-1, c}

\* values of --respawn-code at the ends of every word of the set
BoundaryCodes == {-1, 0, 1, 31, 32, 63, 64, 95, 96, 127}
BoundarySeqs == UNION { [1 .. n -> BoundaryCodes] : n \in 0 .. 2 }

\* C14: the bitset parse_option leaves: without --respawn-code, bit 0 clear
\* and bits 1..127 set; otherwise exactly the union of what the occurrences
\* give, bit c for a value c >= 0 and all 128 bits for -1.
C14_EffectiveBitset ==
    pc = "daemonize" =>
        /\ DOMAIN option.respawn_code_bits = 1 .. RESPAWN_CODE_BITS_ARRAY_SIZE
        /\ \A i \in 1 .. RESPAWN_CODE_BITS_ARRAY_SIZE :
             option.respawn_code_bits[i] \subseteq Word
        /\ \A args \in CommandLines :
             option = parse_option(args) =>
               \A c \in 0 .. 127 :
                 BitOf(option.respawn_code_bits, c) <=> ExpectedBit(args.codes, c)
        /\ \A codes \in BoundarySeqs :
             LET b == parse_respawn_codes(OPTION_INITIALIZER.respawn_code_bits,
                                          codes, FALSE)
             IN  \A c \in 0 .. 127 : BitOf(b, c) <=> ExpectedBit(codes, c)

C14_Witness ==
    /\ pc = "daemonize"
    /\ option.respawn_code_bits = << {}, {10}, {}, {} >>

\* C15: with max_respawn_cnt = 0 the cap test is false for every count of
\* deaths, and every death eligible for respawn is followed by a new fork.
C15_Unlimited ==
    option.max_respawn_cnt = 0 =>
        /\ \A cnt \in (0 .. (MaxDeaths + 1)) \cup {2147483647} :
             ~cap_reached(option, cnt)
        /\ (Decided /\ Eligible(status)) => RespawnChosen

C15_Witness ==
    /\ option.max_respawn_cnt = 0
    /\ respawn_cnt = MaxDeaths
    /\ Decided /\ Eligible(status)
    /\ pc \in {"delay", "fork"}

\* main() is in its supervision loop
InLoop == pc \in {"fork", "sigaction_init", "watch", "delay", "shutdown_wait", "kill_wait"}

C18_OneUnreaped ==
    /\ forks - reaps \in {0, 1}
    /\ pc \in {"fork", "delay"} => forks = reaps
    /\ (forks - reaps = 1) <=> (child_state \in {"setup", "running", "zombie"})

C18_Witness ==
    /\ forks = 3 /\ reaps = 2
    /\ child_state = "running"
    /\ pc = "watch"

\* C19: an iteration of the watch loop entered with the flag set goes to
\* graceful_shutdown without reaping in main() or consulting the policy,
\* even with the target already dead; from there no fork follows and the
\* supervisor exits with status 0.
C19_ShutdownFirst ==
    [][ /\ (pc = "watch" /\ shutdown_requested # 0) =>
             /\ pc' \in {"watch", "shutdown_wait"}
             /\ status' = status /\ respawn_cnt' = respawn_cnt
             /\ forks' = forks /\ reaps' = reaps
        /\ pc \in {"shutdown_wait", "kill_wait"} =>
             /\ pc' \in {"shutdown_wait", "kill_wait", "exited"}
             /\ status' = status /\ respawn_cnt' = respawn_cnt
             /\ forks' = forks
             /\ pc' = "exited" => (exit_code' = EXIT_SUCCESS /\ reaps' = forks')
      ]_vars

C19_Witness ==
    /\ shutdown_requested = 1
    /\ option.respawn /\ BitOf(option.respawn_code_bits, 7)
    /\ child_status = W_EXITCODE(7) /\ child_state = "reaped"
    /\ signals_sent = << SIGTERM >>
    /\ status = -1
    /\ pc = "exited" /\ exit_code = EXIT_SUCCESS

\* C22: a fork() of the loop that fails, the first one or a respawn's, is
\* not tried again: the step that leaves the fork without a new child (and
\* without the supervisor being killed by a signal) ends the supervisor with
\* a failure status, the pid-file descriptor closed and the pid file
\* unlinked, and no further fork.
C22_ForkFailureExits ==
    [][ (pc = "fork" /\ pc' \notin {"fork", "sigaction_init", "signaled"}) =>
            /\ pc' = "exited"
            /\ exit_code' = EXIT_FAILURE
            /\ CleanedUp'
            /\ forks' = forks /\ reaps' = reaps
      ]_vars

C22_Witness ==
    /\ pc = "exited" /\ exit_code = EXIT_FAILURE
    /\ option.pid_file /\ CleanedUp
    /\ forks = 2 /\ reaps = 2
    /\ status = W_EXITCODE(7)

\* C25: the delivery of SIGINT or SIGTERM to the installed handler sets the
\* flag to 1 and changes nothing else: no log message is emitted, and the
\* option record, the runtime descriptors, the respawn counter and the
\* watched pid are left alone.
C25_HandlerOnlySetsFlag ==
    [][ sigaction_handler =>
            /\ shutdown_requested' = 1
            /\ handler_logged' = handler_logged
            /\ UNCHANGED << option, runtimefds, respawn_cnt, pid >>
      ]_vars

\* C26: once the flag is set no target is forked any more.
C26_NoForkAfterShutdown ==
    [][ shutdown_requested # 0 => forks' = forks ]_vars

\* process p holds the lock of the file at the pid-file path
HoldsLock(p) ==
    /\ path_ino # 0
    /\ dfd[p] = path_ino
    /\ inodes[path_ino].lock = getpid(p)

\* the detached process of slot i is in its supervision loop
Supervising(i) == dpc[Child(i)] = "supervise"

\* slot i has finished daemonizing: its detached process supervises, or all
\* of its processes have ended
Settled(i) ==
    /\ dpc[Parent(i)] = "exited"
    /\ dpc[Child(i)] \in {"none", "exited", "supervise"}

\* none of the system calls of the handshake failed for reasons other than
\* the lock, and no supervisor has begun its cleanup
NoFault ==
    /\ \A p \in Procs : diag[p] \in {"none", "lock"}
    /\ \A p \in Procs : dcode[p] = -1

\* C4: of two concurrent invocations with the same pid file, exactly one
\* leaves a detached supervisor that holds the lock, and the other one
\* terminates with a non-zero exit status after reporting the lock failure.
C4_SingleInstance ==
    (/\ starts = 2 /\ NoFault
     /\ \A i \in Slots : pid_file[i] /\ Settled(i)
     /\ \A i \in Slots : Supervising(i) => pid_fd[i] > 0) =>
        \E i \in Slots :
            /\ Supervising(i) /\ HoldsLock(Child(i))
            /\ \A j \in Slots \ {i} :
                 /\ ~Supervising(j)
                 /\ dexit[Parent(j)] # EXIT_SUCCESS
                 /\ diag[Parent(j)] = "lock"

\* what remains of C4 in every interleaving, for invocations started with
\* the standard descriptors open: exactly one detached supervisor holds the
\* lock, and some process of the other invocation reported the lock failure
\* and exited with a failure status
C4_OneSurvivor ==
    (/\ starts = 2 /\ NoFault
     /\ \A i \in Slots : pid_file[i] /\ Settled(i)
     /\ \A i \in Slots : Supervising(i) => pid_fd[i] > 0) =>
        \E i \in Slots :
            /\ Supervising(i) /\ HoldsLock(Child(i))
            /\ \A j \in Slots \ {i} :
                 /\ ~Supervising(j)
                 /\ \E p \in {Parent(j), Child(j)} :
                      diag[p] = "lock" /\ dexit[p] = EXIT_FAILURE

\* the detached process of slot i is alive and has neither failed nor begun
\* its cleanup
DetachedGoing(i) ==
    dpc[Child(i)] \in {"c_close", "c_read", "open", "lock", "truncate", "write",
                       "devnull", "supervise"}

\* C5: the original process has not exited with status 0 while the detached
\* process does not hold the pid-file lock.
C5_LockBeforeParentExit ==
    \A i \in Slots :
        (pid_file[i] /\ dexit[Parent(i)] = EXIT_SUCCESS /\ DetachedGoing(i))
            => HoldsLock(Child(i))

\* C6: once the parent of the handshake has exited, the pid file is locked
\* by a live process and holds the pid of that process.
C6_LockedWithLivePid ==
    \A i \in Slots :
        (pid_file[i] /\ dexit[Parent(i)] = EXIT_SUCCESS /\ DetachedGoing(i)) =>
            /\ path_ino # 0
            /\ \E p \in Procs :
                 /\ dpc[p] \notin {"none", "exited"}
                 /\ inodes[path_ino].lock = getpid(p)
                 /\ inodes[path_ino].content = getpid(p)

\* the only invocation so far has ended, by an error or a normal exit of
\* each of its processes
OnlyInvocationEnded(i) ==
    /\ starts = 1
    /\ pid_file[i]
    /\ run[i] = 1
    /\ dpc[Parent(i)] = "exited"
    /\ dpc[Child(i)] \in {"none", "exited"}

\* C7: when the supervisor that created and locked the pid file has exited,
\* the pid file is no longer at its path.
C7_PidFileRemoved ==
    \A i \in Slots : OnlyInvocationEnded(i) => path_ino = 0

\* a step of process p in which its lock attempt is refused, or in which,
\* the lock refused, it leaves through main()
RefusedStep(p) ==
    \/ dpc[p] = "lock" /\ dpc'[p] = "ret_fail"
    \/ dpc[p] = "ret_fail" /\ diag[p] = "lock" /\ dpc'[p] = "exited"

\* C8: a process that fails to take the lock changes neither the name, the
\* content nor the lock of the pid file, up to and including its exit.
C8_FailedLockFrame ==
    [][\A p \in Procs :
         RefusedStep(p) => (path_ino' = path_ino /\ inodes' = inodes)]_vars

C8_Witness ==
    \E p \in Procs : \E j \in Slots :
        /\ diag[p] = "lock" /\ dpc[p] = "exited" /\ dexit[p] = EXIT_FAILURE
        /\ Supervising(j) /\ HoldsLock(Child(j))
        /\ inodes[path_ino].content = getpid(Child(j))
        /\ SlotOf(p) # j

\* process p holds the lock of the file its pid-file descriptor is open on
LockOnFd(p) == dfd[p] # 0 /\ inodes[dfd[p]].lock = getpid(p)

\* no slot has held more than one invocation
NoReuse == starts = Cardinality({i \in Slots : run[i] # 0})

\* C16: in the detached process daemonize() returns a positive descriptor
\* with the pid-file lock held on it when a pid file was given and every
\* step succeeded, and 0 when none was given and every step succeeded, no
\* file being created, locked or unlinked then; a process that reported a
\* failed step is on the path that returns -1 and ends with a failure.
C16_DaemonizeResult ==
    /\ \A i \in Slots :
         Supervising(i) =>
           IF pid_file[i]
           THEN pid_fd[i] > 0 /\ LockOnFd(Child(i))
           ELSE pid_fd[i] = 0 /\ dfd[Child(i)] = 0
    /\ \A p \in Procs :
         diag[p] # "none" =>
           /\ dpc[p] \in {"dn_unlink", "ret_fail", "exited"}
           /\ dpc[p] = "exited" => dexit[p] = EXIT_FAILURE
    /\ (NoReuse /\ \A i \in Slots : run[i] # 0 => ~pid_file[i]) =>
         (path_ino = 0 /\ inodes = << >>)

\* C20: the detached process re-opens and re-locks the pid file only after
\* its parent has closed its descriptor: while the child is at the open or
\* at the lock, the parent's descriptor is closed and no file is locked by
\* the parent, so the parent's lock never refuses the child.
C20_RelockAfterParentClose ==
    \A i \in Slots :
        dpc[Child(i)] \in {"open", "lock"} =>
            /\ dpc[Parent(i)] \in {"p_exit", "exited"}
            /\ dfd[Parent(i)] = 0
            /\ \A n \in DOMAIN inodes : inodes[n].lock # getpid(Parent(i))

C20_Witness ==
    \E i \in Slots :
        /\ dpc[Child(i)] = "lock"
        /\ dpc[Parent(i)] = "p_exit"
        /\ inodes[dfd[Child(i)]].lock = 0
        /\ inodes[dfd[Child(i)]].content = getpid(Parent(i))

\* C27: every detached supervisor in its loop that was started with a pid
\* file and holds its lock holds it on the file at the pid-file path, no
\* system call of a handshake having failed but for refused locks: another
\* supervisor's cleanup never unlinks the file it has locked.
C27_LockedFileAtPath ==
    (\A p \in Procs : diag[p] \in {"none", "lock"}) =>
        \A i \in Slots :
            (Supervising(i) /\ pid_file[i] /\ LockOnFd(Child(i))) =>
                dfd[Child(i)] = path_ino

\* the failures that do not end the child
Ignored == {"chdir", "stdout_file", "stderr_file"}

\* C21: a failed chdir and a failed open of a redirect file do not end the
\* child: it exits only after a failed call of the user switch or a return
\* from execv, and then with code 254; with none of these it stays on the
\* way to the target (or runs it), whatever else failed.
C21_SetupFailures ==
    /\ child_failed \subseteq Ignored \cup IdCalls \cup {"execv"}
    /\ (child_failed \cap (IdCalls \cup {"execv"}) # {}) <=> child_pc = "exited"
    /\ child_pc = "exited" <=> child_exit = CHILD_EXEC_ERR_CODE
    /\ child_pc # "exited" => child_exit = -1
    /\ (child_pc = "target" /\ "chdir" \in child_failed) => child_cwd = "/"
    /\ (child_pc = "target" /\ "stdout_file" \in child_failed) =>
          (child_fds[STDOUT_FILENO] = Opened("/dev/null") /\ child_runtimefds.stdout_fd = -1)
    /\ (child_pc = "target" /\ "stderr_file" \in child_failed) =>
          (child_fds[STDERR_FILENO] = Opened("/dev/null") /\ child_runtimefds.stderr_fd = -1)

C21_Witness ==
    /\ child_pc = "target"
    /\ child_failed = Ignored
    /\ child_cwd = "/" /\ child_runtimefds.stdout_fd = -1

\* C23: the target does not have the pid file open: after the exec no
\* descriptor of the child is open on the pid file.
C23_PidFdNotInTarget ==
    child_pc = "target" => \A n \in DOMAIN child_fds : child_fds[n].file # "pid_file"

\* C24: with run_user set and the switch succeeding, the target runs with
\* the gid and the uid resolved from run_user, the gid set before the uid.
C24_TargetIdentity ==
    (child_pc = "target" /\ child_option.user) =>
        /\ child_ids.gid = child_option.gid
        /\ child_ids.uid = child_option.uid
        /\ child_calls = << "initgroups", "setgid", "setuid" >>
====
